---- MODULE Spec2Model ----
(***************************************************************************)
(* HPC System Configuration Tool: the wizard's configuration state         *)
(* (ConfigurationStateService), its content hash and its durable snapshot, *)
(* driven through the service's public operations (Spec), and the wizard   *)
(* as the user drives it through the step forms and the review component,  *)
(* with the price and save requests in flight (AppSpec); the service       *)
(* constructed over a stored item (LoadSpec), the forms of steps 1 and 2   *)
(* (FormSpec), the assembly of the final document (AssemblySpec), the hash *)
(* loop over growing texts (HashSpec), the review step with its responses  *)
(* delivered fairly (ReviewSpec) and the wizard edited while a save        *)
(* request is in flight (SaveRaceSpec).                                    *)
(*                                                                         *)
(* JavaScript values are modelled as follows.                              *)
(*   - text is a sequence of UTF-16 code units (naturals);                 *)
(*   - `undefined` (and an absent object key, which reads as undefined) is *)
(*     the record Undefined;                                               *)
(*   - a string held in an optional field is [str |-> <<codes>>];          *)
(*   - a 32-bit integer is held as two 16-bit limbs <<hi, lo>> while the   *)
(*     hash is computed, so that no intermediate value leaves the range of *)
(*     TLC's 32-bit integers;                                              *)
(*   - calculatedEfficiency is held in hundredths and                      *)
(*     estimatedPowerConsumption in tenths.                                *)
(***************************************************************************)
EXTENDS Integers, Sequences, FiniteSets, TLC

VARIABLES
    config,         \* configurationSubject.value: the in-memory WizardState
    store,          \* localStorage item 'hpc-configuration' (NoItem or a JSON document)
    observers,      \* number of review-component subscriptions to configuration$
    currentPrice,   \* PricingService.currentPriceSubject.value, mirrored by the review component
    priceReqs,      \* getPriceByNodes requests in flight: node count -> number of requests
    saveReqs,       \* number of configuration/save requests in flight
    isGenerating,   \* Step4ReviewGenerateComponent.isGenerating
    isPriceLoading, \* Step4ReviewGenerateComponent.isPriceLoading
    priceError,     \* Step4ReviewGenerateComponent.priceError is set
    posted,         \* history: configuration_data of the save request posted last (kept by SaveRaceSpec)
    forms,          \* the fields of Step1SystemTypeComponent and Step2PowerConfigComponent
    last            \* the operation that produced this state, its argument and the state before it

vars == <<config, store, observers, currentPrice, priceReqs, saveReqs,
          isGenerating, isPriceLoading, priceError, posted, forms, last>>

-----------------------------------------------------------------------------
(* Values *)

Undefined == [undefined |-> TRUE]

NoItem == [absent |-> TRUE]

Max(a, b) == IF a >= b THEN a ELSE b

\* Option objects of the catalogs: only id and name are consumed.
X300 == [id |-> <<120, 51, 48, 48>>,
         name |-> <<68, 97, 116, 97, 67, 111, 114, 101, 32, 88, 51, 48, 48>>]   \* x300 / DataCore X300
MiniCluster == [id |-> <<109, 105, 110, 105, 99, 108, 117, 115, 116, 101, 114>>,
                name |-> <<77, 105, 110, 105, 67, 108, 117, 115, 116, 101, 114>>]   \* minicluster / MiniCluster
FullDC == [id |-> <<100, 99>>,
           name |-> <<70, 117, 108, 108, 32, 68, 67, 32, 80, 111, 119, 101, 114>>]   \* dc / Full DC Power
FullAC == [id |-> <<97, 99>>,
           name |-> <<70, 117, 108, 108, 32, 65, 67, 32, 80, 111, 119, 101, 114>>]   \* ac / Full AC Power
RegionUS == [id |-> <<117, 115>>,
             name |-> <<85, 110, 105, 116, 101, 100, 32, 83, 116, 97, 116, 101, 115>>]   \* us / United States
HighSpeed == [id |-> <<104, 105, 103, 104, 115, 112, 101, 101, 100>>,
              name |-> <<72, 105, 103, 104, 45, 83, 112, 101, 101, 100>>]   \* highspeed / High-Speed
WekaIO == [id |-> <<119, 101, 107, 97>>, name |-> <<87, 101, 107, 97, 73, 79>>]   \* weka / WekaIO
Support5y == [id |-> <<53, 121>>, name |-> <<53, 32, 89, 101, 97, 114, 115>>]   \* 5y / 5 Years
Support3y == [id |-> <<51, 121>>, name |-> <<51, 32, 89, 101, 97, 114, 115>>]   \* 3y / 3 Years

\* A form field of type number | null holds JSNull or [num |-> n].
JSNull == [null |-> TRUE]

Number(n) == [num |-> n]

\* the truthiness of a number | null: neither null nor 0
Truthy(v) == v # JSNull /\ v.num # 0

\* calculateTotalRacks with Math.floor in place of Math.ceil
calculateTotalRacks_Floor(nodes, nodesPerRack) ==
    IF Truthy(nodes) /\ Truthy(nodesPerRack)
    THEN nodes.num \div nodesPerRack.num
    ELSE 0

\* Math.ceil(selectedNodes / selectedNodesPerRack) if both are truthy, else 0
calculateTotalRacks(nodes, nodesPerRack) ==
    IF Truthy(nodes) /\ Truthy(nodesPerRack)
    THEN (nodes.num + nodesPerRack.num - 1) \div nodesPerRack.num
    ELSE 0

Step1Data(deployment, nodes, perRack) ==
    [systemType |-> X300, deploymentType |-> deployment, selectedNodes |-> nodes,
     nodesPerRack |-> perRack,
     totalRacks |-> calculateTotalRacks(Number(nodes), Number(perRack))]

Step2Data(power, reg, efficiency, consumption) ==
    [powerConfiguration |-> power, region |-> reg,
     calculatedEfficiency |-> efficiency, estimatedPowerConsumption |-> consumption]

Step3Data(protocol, vendor, support) ==
    [storageProtocol |-> protocol, storageVendor |-> vendor, supportOption |-> support]

\* The payloads handed to updateStep1/2/3.
Step1Inputs == {Step1Data(MiniCluster, 4, 4), Step1Data(MiniCluster, 8, 4)}
Step2Inputs == {Step2Data(FullDC, RegionUS, 95, 9405), Step2Data(FullAC, RegionUS, 90, 9900)}
Step3Inputs == {Step3Data(HighSpeed, WekaIO, Support5y), Step3Data(HighSpeed, WekaIO, Support3y)}

\* The step numbers handed to navigateToStep: the four steps, one below, one above.
MaxStepArg == 5
StepArgs == 0..MaxStepArg

-----------------------------------------------------------------------------
(* JSON.stringify of the hash input, as text *)

RECURSIVE NatToString(_)
NatToString(n) ==
    IF n < 10 THEN <<48 + n>> ELSE NatToString(n \div 10) \o <<48 + (n % 10)>>

\* Number.prototype.toString of n / 10^digits (n >= 0): shortest decimal form
RECURSIVE FractionDigits(_, _)
FractionDigits(f, digits) ==
    IF f = 0 \/ digits = 0 THEN <<>>
    ELSE LET unit == 10 ^ (digits - 1)
         IN <<48 + (f \div unit)>> \o FractionDigits(f % unit, digits - 1)

DecimalToString(n, digits) ==
    LET unit == 10 ^ digits
        frac == FractionDigits(n % unit, digits)
    IN NatToString(n \div unit) \o (IF frac = <<>> THEN <<>> ELSE <<46>> \o frac)

JSONString(s) == <<34>> \o s \o <<34>>

JSONMember(key, value) == JSONString(key) \o <<58>> \o value

\* the members of an object, separated by commas
JoinComma[members \in Seq(Seq(Nat))] ==
    IF members = <<>> THEN <<>>
    ELSE IF Len(members) = 1 THEN members[1]
    ELSE members[1] \o <<44>> \o JoinComma[Tail(members)]

JSONObject(members) == <<123>> \o JoinComma[members] \o <<125>>

StringifyOption(o) ==
    JSONObject(<<JSONMember(<<105, 100>>, JSONString(o.id)),               \* "id"
                 JSONMember(<<110, 97, 109, 101>>, JSONString(o.name))>>)  \* "name"

StringifyStep1(d) ==
    JSONObject(<<
        JSONMember(<<115, 121, 115, 116, 101, 109, 84, 121, 112, 101>>,                   \* "systemType"
                   StringifyOption(d.systemType)),
        JSONMember(<<100, 101, 112, 108, 111, 121, 109, 101, 110, 116, 84, 121, 112, 101>>,   \* "deploymentType"
                   StringifyOption(d.deploymentType)),
        JSONMember(<<115, 101, 108, 101, 99, 116, 101, 100, 78, 111, 100, 101, 115>>,     \* "selectedNodes"
                   NatToString(d.selectedNodes)),
        JSONMember(<<110, 111, 100, 101, 115, 80, 101, 114, 82, 97, 99, 107>>,            \* "nodesPerRack"
                   NatToString(d.nodesPerRack)),
        JSONMember(<<116, 111, 116, 97, 108, 82, 97, 99, 107, 115>>,                      \* "totalRacks"
                   NatToString(d.totalRacks))>>)

StringifyStep2(d) ==
    JSONObject(<<
        JSONMember(<<112, 111, 119, 101, 114, 67, 111, 110, 102, 105, 103, 117, 114, 97, 116, 105, 111, 110>>,
                   StringifyOption(d.powerConfiguration)),                                \* "powerConfiguration"
        JSONMember(<<114, 101, 103, 105, 111, 110>>, StringifyOption(d.region)),          \* "region"
        JSONMember(<<99, 97, 108, 99, 117, 108, 97, 116, 101, 100, 69, 102, 102, 105, 99, 105, 101, 110, 99, 121>>,
                   DecimalToString(d.calculatedEfficiency, 2)),                           \* "calculatedEfficiency"
        JSONMember(<<101, 115, 116, 105, 109, 97, 116, 101, 100, 80, 111, 119, 101, 114,
                     67, 111, 110, 115, 117, 109, 112, 116, 105, 111, 110>>,
                   DecimalToString(d.estimatedPowerConsumption, 1))>>)                    \* "estimatedPowerConsumption"

StringifyStep3(d) ==
    JSONObject(<<
        JSONMember(<<115, 116, 111, 114, 97, 103, 101, 80, 114, 111, 116, 111, 99, 111, 108>>,
                   StringifyOption(d.storageProtocol)),                                   \* "storageProtocol"
        JSONMember(<<115, 116, 111, 114, 97, 103, 101, 86, 101, 110, 100, 111, 114>>,
                   StringifyOption(d.storageVendor)),                                     \* "storageVendor"
        JSONMember(<<115, 117, 112, 112, 111, 114, 116, 79, 112, 116, 105, 111, 110>>,
                   StringifyOption(d.supportOption))>>)                                   \* "supportOption"

\* JSON.stringify({step1, step2, step3}): a member whose value is undefined is left out
StringifySteps(c) ==
    JSONObject(
        (IF c.step1 = Undefined THEN <<>>
         ELSE <<JSONMember(<<115, 116, 101, 112, 49>>, StringifyStep1(c.step1))>>) \o
        (IF c.step2 = Undefined THEN <<>>
         ELSE <<JSONMember(<<115, 116, 101, 112, 50>>, StringifyStep2(c.step2))>>) \o
        (IF c.step3 = Undefined THEN <<>>
         ELSE <<JSONMember(<<115, 116, 101, 112, 51>>, StringifyStep3(c.step3))>>))

-----------------------------------------------------------------------------
(* calculateConfigHash: the 32-bit rolling hash, on limbs <<hi, lo>> of 16 bits *)

Limb == 65536

Int32 == (0..Limb - 1) \X (0..Limb - 1)

\* One round without the subtraction:  hash = (hash << 5) + char
HashStep_NoSubtract(h, char) ==
    LET lo == h[2] * 32 + char
        hi == h[1] * 32 + (lo \div Limb)
    IN <<hi % Limb, lo % Limb>>

\* One round of the loop body:  hash = ((hash << 5) - hash) + char;  hash = hash & hash
HashStep(h, char) ==
    LET shLo == (h[2] * 32) % Limb                                \* hash << 5, low limb
        shHi == (h[1] * 32 + (h[2] * 32) \div Limb) % Limb        \* hash << 5, high limb
        dLo  == shLo - h[2] + char                                \* (hash << 5) - hash + char
        dHi  == shHi - h[1] + (dLo \div Limb)
    IN <<dHi % Limb, dLo % Limb>>                                 \* hash & hash: back to 32 bits

\* let hash = 0; for (let i = 0; i < configString.length; i++) { ... }
\* The rounds lo..hi of the loop are run as the rounds lo..mid followed by the
\* rounds mid+1..hi, which keeps the evaluation shallow on long strings.
HashString[s \in Seq(0..Limb - 1)] ==
    LET loop[h \in Int32, lo \in 1..Len(s) + 1, hi \in 0..Len(s)] ==
            IF lo > hi THEN h
            ELSE IF lo = hi THEN HashStep(h, s[lo])
            ELSE loop[loop[h, lo, (lo + hi) \div 2], (lo + hi) \div 2 + 1, hi]
    IN loop[<<0, 0>>, 1, Len(s)]

RECURSIVE UInt32ToString(_)
UInt32ToString(u) ==
    LET qHi  == u[1] \div 10
        rest == (u[1] % 10) * Limb + u[2]
        qLo  == rest \div 10
    IN IF qHi = 0 /\ qLo = 0 THEN <<48 + (rest % 10)>>
       ELSE UInt32ToString(<<qHi, qLo>>) \o <<48 + (rest % 10)>>

\* hash.toString(): the limbs read as a signed 32-bit integer, in decimal
Int32ToString(h) ==
    IF h[1] >= Limb \div 2
    THEN <<45>> \o UInt32ToString(<<(Limb - 1 - h[1] + (IF h[2] = 0 THEN 1 ELSE 0)) % Limb,
                                    (Limb - h[2]) % Limb>>)
    ELSE UInt32ToString(h)

\* calculateConfigHash over the whole configuration instead of {step1, step2, step3}
calculateConfigHash_WholeConfig(c) ==
    [str |-> Int32ToString(HashString[StringifySteps(c) \o NatToString(c.currentStep)
                                      \o (IF c.isComplete THEN <<116>> ELSE <<102>>)])]

\* The hash text of every {step1, step2, step3} the model can hold, computed
\* once: JSON.stringify, the hash loop and hash.toString().
ConfigHashes ==
    [t \in (Step1Inputs \cup {Undefined}) \X (Step2Inputs \cup {Undefined})
                                          \X (Step3Inputs \cup {Undefined}) |->
        Int32ToString(HashString[StringifySteps([step1 |-> t[1], step2 |-> t[2], step3 |-> t[3]])])]
    @@ <<>>

calculateConfigHash(c) == [str |-> ConfigHashes[<<c.step1, c.step2, c.step3>>]]

\* !value for a field that holds a string or undefined
Falsy(v) == v = Undefined \/ v.str = <<>>

hasConfigurationChanged(c) ==
    IF Falsy(c.lastGeneratedHash) THEN TRUE
    ELSE c.lastGeneratedHash # calculateConfigHash(c)

-----------------------------------------------------------------------------
(* The durable snapshot *)

OptionalKeys == {"step1", "step2", "step3", "lastGeneratedHash"}

\* JSON.stringify(config): the document's members; an undefined member is left out
JSONStringify(c) ==
    [k \in {key \in DOMAIN c : key \notin OptionalKeys \/ c[key] # Undefined} |-> c[k]]

\* JSON.parse of a stored document, read as ConfigurationData: an absent member reads as undefined
JSONParse(doc) ==
    [k \in DOMAIN doc \cup OptionalKeys |-> IF k \in DOMAIN doc THEN doc[k] ELSE Undefined]

\* A stored item that the service did not write is held as its text,
\* [text |-> <<codes>>]. JSON.parse of such a text is modelled for scalars:
\* null, true, false and unsigned decimal numerals; the other texts used here
\* (see StoredTexts) are not JSON, and JSON.parse throws a SyntaxError on them.
IsNumeral(t) ==
    /\ t # <<>>
    /\ \A i \in 1..Len(t) : t[i] \in 48..57
    /\ Len(t) > 1 => t[1] # 48

RECURSIVE NumeralValue(_)
NumeralValue(t) ==
    IF t = <<>> THEN 0 ELSE 10 * NumeralValue(SubSeq(t, 1, Len(t) - 1)) + (t[Len(t)] - 48)

JSONParseText(t) ==
    IF t = <<110, 117, 108, 108>> THEN [value |-> JSNull]                       \* null
    ELSE IF t = <<116, 114, 117, 101>> THEN [value |-> [bool |-> TRUE]]         \* true
    ELSE IF t = <<102, 97, 108, 115, 101>> THEN [value |-> [bool |-> FALSE]]    \* false
    ELSE IF IsNumeral(t) THEN [value |-> [num |-> NumeralValue(t)]]
    ELSE [threw |-> "SyntaxError"]

\* JSON.parse(saved) for either kind of stored item
JSONParseItem(saved) ==
    IF "text" \in DOMAIN saved THEN JSONParseText(saved.text)
    ELSE [value |-> JSONParse(saved)]

-----------------------------------------------------------------------------
(* The review component's reaction to a configuration$ emission.            *)
(* w is the whole application state: a record of the variables but last.    *)
(* The component's fields configuration and hasConfigChanged are set on     *)
(* every emission to the emitted value and to hasConfigurationChanged(), so *)
(* they are read off config.                                                *)

NodeCounts == {4, 8}

\* no cached price: currentPriceSubject holds null
NoPrice == [null |-> TRUE]

\* at most this many getPriceByNodes requests are in flight
MaxPriceReqs == 3

\* at most this many configuration/save requests are in flight
MaxSaveReqs == 2

\* this.isPriceLoading = true; this.priceError = null; getPriceByNodes(nodesCount).subscribe(...)
fetchPricing(w, nodesCount) ==
    [w EXCEPT !.isPriceLoading = TRUE,
              !.priceError = FALSE,
              !.priceReqs[nodesCount] = @ + 1]

\* if (this.configuration?.step1?.selectedNodes) fetchPricing(...)
loadPricingData(w) ==
    IF w.config.step1 # Undefined /\ w.config.step1.selectedNodes # 0
    THEN fetchPricing(w, w.config.step1.selectedNodes)
    ELSE w

\* loadConfiguration(): configuration and hasConfigChanged are refreshed, then loadPricingData()
loadConfiguration(w) == loadPricingData(w)

\* the callback of configuration$ in ngOnInit, once for each of k subscriptions
RECURSIVE configurationObserved(_, _)
configurationObserved(w, k) ==
    IF k = 0 THEN w ELSE configurationObserved(loadPricingData(w), k - 1)

-----------------------------------------------------------------------------
(* ConfigurationStateService; sv is the application state *)

InitialConfig ==
    [step1 |-> Undefined, step2 |-> Undefined, step3 |-> Undefined,
     currentStep |-> 1, isComplete |-> FALSE, lastGeneratedHash |-> Undefined]

\* The constructor: a stored item that is truthy (present and not the empty
\* text) and that JSON.parse accepts becomes the value of the subject as it
\* is; on a SyntaxError the initial value stays.
constructor(saved) ==
    IF saved = NoItem \/ saved = [text |-> <<>>] THEN InitialConfig
    ELSE LET parsed == JSONParseItem(saved)
         IN IF "threw" \in DOMAIN parsed THEN InitialConfig ELSE parsed.value

\* configurationSubject.next(c): the value is replaced and the subscribers run
subjectNext(sv, c) == configurationObserved([sv EXCEPT !.config = c], sv.observers)

updateConfiguration(sv, c) == [subjectNext(sv, c) EXCEPT !.store = JSONStringify(c)]

\* updateStep1 with currentStep: 2 in place of Math.max(current.currentStep, 2)
updateStep1_NoMax(sv, data) ==
    updateConfiguration(sv, [sv.config EXCEPT !.step1 = data,
                                              !.currentStep = 2,
                                              !.isComplete = FALSE,
                                              !.lastGeneratedHash = Undefined])

\* updateStep1 without lastGeneratedHash: undefined
updateStep1_KeepsHash(sv, data) ==
    updateConfiguration(sv, [sv.config EXCEPT !.step1 = data,
                                              !.currentStep = Max(@, 2),
                                              !.isComplete = FALSE])

updateStep1(sv, data) ==
    updateConfiguration(sv, [sv.config EXCEPT !.step1 = data,
                                              !.currentStep = Max(@, 2),
                                              !.isComplete = FALSE,
                                              !.lastGeneratedHash = Undefined])

\* updateStep2 with currentStep: 3 in place of Math.max(current.currentStep, 3)
updateStep2_NoMax(sv, data) ==
    updateConfiguration(sv, [sv.config EXCEPT !.step2 = data,
                                              !.currentStep = 3,
                                              !.isComplete = FALSE,
                                              !.lastGeneratedHash = Undefined])

\* updateStep2 without isComplete: false
updateStep2_KeepsComplete(sv, data) ==
    updateConfiguration(sv, [sv.config EXCEPT !.step2 = data,
                                              !.currentStep = Max(@, 3),
                                              !.lastGeneratedHash = Undefined])

updateStep2(sv, data) ==
    updateConfiguration(sv, [sv.config EXCEPT !.step2 = data,
                                              !.currentStep = Max(@, 3),
                                              !.isComplete = FALSE,
                                              !.lastGeneratedHash = Undefined])

\* updateStep3 without lastGeneratedHash: undefined
updateStep3_KeepsHash(sv, data) ==
    updateConfiguration(sv, [sv.config EXCEPT !.step3 = data,
                                              !.currentStep = Max(@, 4),
                                              !.isComplete = FALSE])

\* updateStep3 without ...current: the other members are not carried over
updateStep3_NoSpread(sv, data) ==
    updateConfiguration(sv, [InitialConfig EXCEPT !.step3 = data,
                                                  !.currentStep = Max(sv.config.currentStep, 4)])

updateStep3(sv, data) ==
    updateConfiguration(sv, [sv.config EXCEPT !.step3 = data,
                                              !.currentStep = Max(@, 4),
                                              !.isComplete = FALSE,
                                              !.lastGeneratedHash = Undefined])

\* return this.configurationSubject.value
getCurrentConfiguration(sv) == sv.config

completeConfiguration(sv) ==
    updateConfiguration(sv, [sv.config EXCEPT !.isComplete = TRUE])

\* navigateToStep without the step <= current.currentStep guard
navigateToStep_NoGuard(sv, step) == subjectNext(sv, [sv.config EXCEPT !.currentStep = step])

navigateToStep(sv, step) ==
    IF step <= sv.config.currentStep
    THEN subjectNext(sv, [sv.config EXCEPT !.currentStep = step])
    ELSE sv

isStepAccessible(c, step) == step <= c.currentStep

\* resetConfiguration that spreads the current state under the fresh members
resetConfiguration_KeepsSteps(sv) ==
    updateConfiguration(sv, [sv.config EXCEPT !.currentStep = 1, !.isComplete = FALSE])

\* resetConfiguration whose fresh state carries the current step over
resetConfiguration_KeepsCurrentStep(sv) ==
    updateConfiguration(sv, [InitialConfig EXCEPT !.currentStep = sv.config.currentStep])

resetConfiguration(sv) == updateConfiguration(sv, InitialConfig)

\* markAsGenerated that also writes isComplete: true
markAsGenerated_Completes(sv) ==
    updateConfiguration(sv, [sv.config EXCEPT !.isComplete = TRUE,
                                              !.lastGeneratedHash = calculateConfigHash(sv.config)])

markAsGenerated(sv) ==
    updateConfiguration(sv, [sv.config EXCEPT !.lastGeneratedHash = calculateConfigHash(sv.config)])

-----------------------------------------------------------------------------
(* Step1SystemTypeComponent: the form of step 1.                             *)
(* The catalog is step1-system-types.json as loaded; of a deployment type    *)
(* the payload keeps id and name, and the catalog gives its node counts and  *)
(* its nodes-per-rack options.                                               *)

SuperCluster == [id |-> <<115, 117, 112, 101, 114, 99, 108, 117, 115, 116, 101, 114>>,
                 name |-> <<83, 117, 112, 101, 114, 67, 108, 117, 115, 116, 101, 114>>]   \* supercluster / SuperCluster

DeploymentTypes == {MiniCluster, SuperCluster}

availableNodeCounts(deploymentType) ==
    IF deploymentType = MiniCluster THEN {5, 8} ELSE {16}

nodesPerRackOptions(deploymentType) ==
    IF deploymentType = MiniCluster THEN {4} ELSE {8}

InitialStep1Form ==
    [selectedSystemType |-> JSNull, selectedDeploymentType |-> JSNull,
     selectedNodes |-> JSNull, selectedNodesPerRack |-> JSNull,
     availableDeploymentTypes |-> {}, availableNodeCounts |-> {}, availableNodesPerRack |-> {}]

onSystemTypeSelect(f, systemType) ==
    [f EXCEPT !.selectedSystemType = systemType,
              !.availableDeploymentTypes = DeploymentTypes,
              !.selectedDeploymentType = JSNull,
              !.selectedNodes = JSNull,
              !.selectedNodesPerRack = JSNull,
              !.availableNodeCounts = {},
              !.availableNodesPerRack = {}]

onDeploymentTypeSelect(f, deploymentType) ==
    [f EXCEPT !.selectedDeploymentType = deploymentType,
              !.availableNodeCounts = availableNodeCounts(deploymentType),
              !.availableNodesPerRack = nodesPerRackOptions(deploymentType),
              !.selectedNodes = JSNull,
              !.selectedNodesPerRack = JSNull]

\* this.selectedNodes = +target.value
onNodesSelect(f, value) == [f EXCEPT !.selectedNodes = Number(value)]

\* this.selectedNodesPerRack = +target.value
onNodesPerRackSelect(f, value) == [f EXCEPT !.selectedNodesPerRack = Number(value)]

\* isFormValid of step 1 that tests the numbers against null, not for truthiness
step1_isFormValid_NotNull(f) ==
    /\ f.selectedSystemType # JSNull
    /\ f.selectedDeploymentType # JSNull
    /\ f.selectedNodes # JSNull
    /\ f.selectedNodesPerRack # JSNull

step1_isFormValid(f) ==
    /\ f.selectedSystemType # JSNull
    /\ f.selectedDeploymentType # JSNull
    /\ Truthy(f.selectedNodes)
    /\ Truthy(f.selectedNodesPerRack)

\* onNext of step 1
step1_onNext(sv, f) ==
    IF step1_isFormValid(f)
    THEN LET step1Data == [systemType |-> f.selectedSystemType,
                           deploymentType |-> f.selectedDeploymentType,
                           selectedNodes |-> f.selectedNodes.num,
                           nodesPerRack |-> f.selectedNodesPerRack.num,
                           totalRacks |-> calculateTotalRacks(f.selectedNodes, f.selectedNodesPerRack)]
         IN navigateToStep(updateStep1(sv, step1Data), 2)
    ELSE sv

-----------------------------------------------------------------------------
(* Step2PowerConfigComponent: the form of step 2.                            *)
(* The catalog is step2-power-config.json as loaded (this.config); of a      *)
(* power configuration and of a region the payload keeps id and name, and    *)
(* the catalog gives the efficiency and the power multiplier. Multipliers    *)
(* and efficiencies are held in hundredths, the consumption in tenths.       *)

PowerConfigurations == {FullDC}

Regions == {RegionUS}

\* PowerConfiguration.efficiency
efficiency(powerConfiguration) == 95

\* Region.powerMultiplier
powerMultiplier(reg) == 110

\* config.powerCalculation: base consumption by deployment type id and node
\* count (as text), and efficiency multipliers by power configuration id
MiniClusterBase == (NatToString(4) :> 1200) @@ (NatToString(8) :> 2400)

SuperClusterBase == (NatToString(16) :> 4800)

PowerCalculation ==
    [baseConsumption |-> (MiniCluster.id :> MiniClusterBase) @@ (SuperCluster.id :> SuperClusterBase),
     efficiencyMultipliers |-> (FullDC.id :> 90)]

\* a catalog whose base consumption has no table for supercluster
PowerCalculationMiniOnly ==
    [baseConsumption |-> (MiniCluster.id :> MiniClusterBase),
     efficiencyMultipliers |-> (FullDC.id :> 90)]

\* a catalog whose efficiency multiplier of the power configuration is 0
PowerCalculationZeroMultiplier ==
    [baseConsumption |-> (MiniCluster.id :> MiniClusterBase) @@ (SuperCluster.id :> SuperClusterBase),
     efficiencyMultipliers |-> (FullDC.id :> 0)]

PowerCalculations == {PowerCalculation, PowerCalculationMiniOnly, PowerCalculationZeroMultiplier}

InitialStep2Form(powerCalculation) ==
    [config |-> [powerCalculation |-> powerCalculation],
     selectedPowerConfiguration |-> JSNull, selectedRegion |-> JSNull,
     showSummary |-> FALSE, calculatedEfficiency |-> 0, estimatedPowerConsumption |-> 0]

\* table[key] || fallback
LookupOr(table, key, fallback) ==
    IF key \in DOMAIN table /\ table[key] # 0 THEN table[key] ELSE fallback

\* Math.round(basePower * efficiencyMultiplier * regionalMultiplier * 10) / 10, in tenths
RoundedConsumption(basePower, efficiencyMultiplier, regionalMultiplier) ==
    (basePower * efficiencyMultiplier * regionalMultiplier + 500) \div 1000

\* calculatePowerConsumption: the form after it, and whether it threw
\* (baseConsumption[nodeCount] with baseConsumption undefined is a TypeError)
calculatePowerConsumption(f, step1Data) ==
    IF f.selectedPowerConfiguration = JSNull \/ f.selectedRegion = JSNull
    THEN [form |-> f, threw |-> FALSE]
    ELSE IF step1Data = Undefined
    THEN [form |-> f, threw |-> FALSE]
    ELSE LET g == [f EXCEPT !.calculatedEfficiency = efficiency(f.selectedPowerConfiguration)]
             deploymentType == step1Data.deploymentType.id
             nodeCount == NatToString(step1Data.selectedNodes)
             table == f.config.powerCalculation
         IN IF deploymentType \notin DOMAIN table.baseConsumption
            THEN [form |-> g, threw |-> TRUE]
            ELSE LET basePower == LookupOr(table.baseConsumption[deploymentType], nodeCount, 1000)
                     efficiencyMultiplier ==
                         LookupOr(table.efficiencyMultipliers, f.selectedPowerConfiguration.id, 100)
                     regionalMultiplier == powerMultiplier(f.selectedRegion)
                 IN [form |-> [g EXCEPT !.estimatedPowerConsumption =
                                  RoundedConsumption(basePower, efficiencyMultiplier, regionalMultiplier)],
                     threw |-> FALSE]

updateSummary(f, step1Data) ==
    IF f.selectedPowerConfiguration # JSNull /\ f.selectedRegion # JSNull
    THEN calculatePowerConsumption([f EXCEPT !.showSummary = TRUE], step1Data)
    ELSE [form |-> [f EXCEPT !.showSummary = FALSE], threw |-> FALSE]

onPowerConfigurationSelect(f, powerConfig, step1Data) ==
    updateSummary([f EXCEPT !.selectedPowerConfiguration = powerConfig], step1Data)

\* this.config?.regions.find(r => r.id === regionId) || null
onRegionSelect(f, regionId, step1Data) ==
    updateSummary([f EXCEPT !.selectedRegion =
                       IF \E r \in Regions : r.id = regionId
                       THEN CHOOSE r \in Regions : r.id = regionId
                       ELSE JSNull],
                  step1Data)

step2_isFormValid(f) == f.selectedPowerConfiguration # JSNull /\ f.selectedRegion # JSNull

\* onNext of step 2
step2_onNext(sv, f) ==
    IF step2_isFormValid(f)
    THEN LET step2Data == [powerConfiguration |-> f.selectedPowerConfiguration,
                           region |-> f.selectedRegion,
                           calculatedEfficiency |-> f.calculatedEfficiency,
                           estimatedPowerConsumption |-> f.estimatedPowerConsumption]
         IN navigateToStep(updateStep2(sv, step2Data), 3)
    ELSE sv

\* ngOnInit of a new instance over the catalog, once the catalog is loaded:
\* the selections of a stored step 2 are restored and the summary is updated
step2_loadConfiguration(powerCalculation, c) ==
    IF c.step2 # Undefined
    THEN updateSummary([InitialStep2Form(powerCalculation) EXCEPT
                            !.selectedPowerConfiguration = c.step2.powerConfiguration,
                            !.selectedRegion = c.step2.region],
                       c.step1)
    ELSE [form |-> InitialStep2Form(powerCalculation), threw |-> FALSE]

\* the forms once their catalogs are loaded, nothing being selected
InitialForms == [step1 |-> InitialStep1Form, step2 |-> InitialStep2Form(PowerCalculation)]

-----------------------------------------------------------------------------
(* The service driven through its public operations *)

Sv == [config |-> config, store |-> store, observers |-> observers,
       currentPrice |-> currentPrice, priceReqs |-> priceReqs, saveReqs |-> saveReqs,
       isGenerating |-> isGenerating, isPriceLoading |-> isPriceLoading,
       priceError |-> priceError, posted |-> posted]

PriceReqCount(w) == w.priceReqs[4] + w.priceReqs[8]

\* the step of the model in which operation op(arg) took the state to sv and
\* the forms to f
Stepped(op, arg, sv, f) ==
    \E w \in {sv} :
        /\ PriceReqCount(w) <= MaxPriceReqs
        /\ config' = w.config
        /\ store' = w.store
        /\ observers' = w.observers
        /\ currentPrice' = w.currentPrice
        /\ priceReqs' = w.priceReqs
        /\ saveReqs' = w.saveReqs
        /\ isGenerating' = w.isGenerating
        /\ isPriceLoading' = w.isPriceLoading
        /\ priceError' = w.priceError
        /\ posted' = w.posted
        /\ forms' = f
        /\ last' = [op |-> op, arg |-> arg, pre |-> config]

\* a step that leaves the forms as they are
Called(op, arg, sv) == Stepped(op, arg, sv, forms)

\* the state after construction of the service and of the pricing service
Constructed ==
    /\ config = InitialConfig
    /\ store = NoItem
    /\ currentPrice = NoPrice
    /\ priceReqs = [n \in NodeCounts |-> 0]
    /\ saveReqs = 0
    /\ isGenerating = FALSE
    /\ isPriceLoading = FALSE
    /\ priceError = FALSE
    /\ posted = Undefined
    /\ forms = InitialForms
    /\ last = [op |-> "init", arg |-> 0, pre |-> InitialConfig]

Init == Constructed /\ observers = 0

CallUpdateStep1 == \E d \in Step1Inputs : Called("updateStep1", d, updateStep1(Sv, d))

CallUpdateStep2 == \E d \in Step2Inputs : Called("updateStep2", d, updateStep2(Sv, d))

CallUpdateStep3 == \E d \in Step3Inputs : Called("updateStep3", d, updateStep3(Sv, d))

CallNavigateToStep == \E s \in StepArgs : Called("navigateToStep", s, navigateToStep(Sv, s))

CallCompleteConfiguration == Called("completeConfiguration", 0, completeConfiguration(Sv))

CallMarkAsGenerated == Called("markAsGenerated", 0, markAsGenerated(Sv))

CallResetConfiguration == Called("resetConfiguration", 0, resetConfiguration(Sv))

\* the three queries: the answer is recorded, the state is the one before
CallGetCurrentConfiguration ==
    Called("getCurrentConfiguration", getCurrentConfiguration(Sv), Sv)

CallHasConfigurationChanged ==
    Called("hasConfigurationChanged", hasConfigurationChanged(config), Sv)

CallIsStepAccessible ==
    \E s \in StepArgs :
        Called("isStepAccessible", [step |-> s, accessible |-> isStepAccessible(config, s)], Sv)

Next ==
    \/ CallUpdateStep1
    \/ CallUpdateStep2
    \/ CallUpdateStep3
    \/ CallNavigateToStep
    \/ CallCompleteConfiguration
    \/ CallMarkAsGenerated
    \/ CallResetConfiguration
    \/ CallGetCurrentConfiguration
    \/ CallHasConfigurationChanged
    \/ CallIsStepAccessible

Spec == Init /\ [][Next]_vars

-----------------------------------------------------------------------------
(* The service constructed over a stored item it may or may not have written *)

\* the largest number held as a stored numeral
MaxStoredNumber == 12

\* texts that are not snapshots: the empty text, text that is not JSON
\* ("{"currentStep":" cut short, "undefined", "07"), and JSON scalars
StoredTexts ==
    {<<>>,
     <<123, 34, 99, 117, 114, 114, 101, 110, 116, 83, 116, 101, 112, 34, 58>>,
     <<117, 110, 100, 101, 102, 105, 110, 101, 100>>,
     <<48, 55>>,
     <<110, 117, 108, 108>>, <<116, 114, 117, 101>>, <<102, 97, 108, 115, 101>>}
    \cup {NatToString(n) : n \in 0..MaxStoredNumber}

\* the states a snapshot can be of
WizardStates ==
    [step1 : Step1Inputs \cup {Undefined}, step2 : Step2Inputs \cup {Undefined},
     step3 : Step3Inputs \cup {Undefined}, currentStep : 1..4, isComplete : BOOLEAN,
     lastGeneratedHash : {Undefined}]

\* a JSON object with the members of doc but currentStep
WithoutCurrentStep(doc) == [k \in DOMAIN doc \ {"currentStep"} |-> doc[k]]

StoredItems ==
    {NoItem}
    \cup {[text |-> t] : t \in StoredTexts}
    \cup {JSONStringify(c) : c \in WizardStates}
    \cup {WithoutCurrentStep(JSONStringify(c)) : c \in WizardStates}

\* before the constructor body runs: the subject holds its initial value
LoadInit ==
    /\ config = InitialConfig
    /\ store \in StoredItems
    /\ observers = 0
    /\ currentPrice = NoPrice
    /\ priceReqs = [n \in NodeCounts |-> 0]
    /\ saveReqs = 0
    /\ isGenerating = FALSE
    /\ isPriceLoading = FALSE
    /\ priceError = FALSE
    /\ posted = Undefined
    /\ forms = InitialForms
    /\ last = [op |-> "new", arg |-> 0, pre |-> InitialConfig]

RunConstructor ==
    /\ last.op = "new"
    /\ Called("constructor", store, [Sv EXCEPT !.config = constructor(store)])

LoadNext == RunConstructor

LoadSpec == LoadInit /\ [][LoadNext]_vars

-----------------------------------------------------------------------------
(* PricingService and the review component (Step4ReviewGenerateComponent) *)

\* the price list of the backend, in cents
PriceTable == [n \in NodeCounts |-> IF n = 4 THEN 19999 ELSE 34999]

PriceResponse(n) == [nodes_count |-> n, price_usd |-> PriceTable[n], currency |-> "USD"]

\* getPriceByNodes whose tap does not put the price in the cache
priceLoaded_NoCache(w, n) ==
    [w EXCEPT !.priceReqs[n] = @ - 1,
              !.isPriceLoading = FALSE]

\* getPriceByNodes whose tap drops the response of a request for another
\* node count than the one now selected
priceLoaded_DropsSuperseded(w, n) ==
    IF w.config.step1 # Undefined /\ w.config.step1.selectedNodes = n
    THEN [w EXCEPT !.priceReqs[n] = @ - 1,
                   !.currentPrice = PriceResponse(n),
                   !.isPriceLoading = FALSE]
    ELSE [w EXCEPT !.priceReqs[n] = @ - 1,
                   !.isPriceLoading = FALSE]

\* getPriceByNodes, tap: currentPriceSubject.next(price); fetchPricing, next: isPriceLoading = false
priceLoaded(w, n) ==
    [w EXCEPT !.priceReqs[n] = @ - 1,
              !.currentPrice = PriceResponse(n),
              !.isPriceLoading = FALSE]

\* getPriceByNodes whose catchError leaves the cached price as it is
priceFailed_KeepsPrice(w, n) ==
    [w EXCEPT !.priceReqs[n] = @ - 1,
              !.isPriceLoading = FALSE,
              !.priceError = TRUE]

\* getPriceByNodes, catchError: currentPriceSubject.next(null); fetchPricing, error
priceFailed(w, n) ==
    [w EXCEPT !.priceReqs[n] = @ - 1,
              !.currentPrice = NoPrice,
              !.isPriceLoading = FALSE,
              !.priceError = TRUE]

\* obj?.member: undefined when obj is undefined or has no such member
Member(obj, key) == IF key \in DOMAIN obj THEN obj[key] ELSE Undefined

\* obj?.member || '' for a text member
TextOf(obj, key) == IF key \in DOMAIN obj THEN obj[key] ELSE <<>>

\* obj?.member || 0 for a numeric member
NumberOf(obj, key) == IF key \in DOMAIN obj THEN obj[key] ELSE 0

\* getFinalConfiguration without the ?. after config.step1, config.step2 and
\* config.step3: reading a member of an undefined step throws a TypeError
getFinalConfiguration_NoStepChaining(c) ==
    IF c.step1 = Undefined \/ c.step2 = Undefined \/ c.step3 = Undefined
    THEN [threw |-> "TypeError"]
    ELSE [system |-> [type |-> TextOf(Member(c.step1, "systemType"), "name"),
                      deployment |-> TextOf(Member(c.step1, "deploymentType"), "name"),
                      nodes |-> NumberOf(c.step1, "selectedNodes"),
                      nodesPerRack |-> NumberOf(c.step1, "nodesPerRack"),
                      totalRacks |-> NumberOf(c.step1, "totalRacks")],
          power |-> [configuration |-> TextOf(Member(c.step2, "powerConfiguration"), "name"),
                     region |-> TextOf(Member(c.step2, "region"), "name"),
                     efficiency |-> NumberOf(c.step2, "calculatedEfficiency"),
                     estimatedConsumption |-> NumberOf(c.step2, "estimatedPowerConsumption")],
          storage |-> [protocol |-> TextOf(Member(c.step3, "storageProtocol"), "name"),
                       vendor |-> TextOf(Member(c.step3, "storageVendor"), "name"),
                       support |-> TextOf(Member(c.step3, "supportOption"), "name")],
          version |-> "1.0",
          pricing |-> Undefined]

\* the selected names and numbers; what is missing projects to '' and 0
\* (the timestamp is drawn where the method is called)
getFinalConfiguration(c) ==
    [system |-> [type |-> TextOf(Member(c.step1, "systemType"), "name"),
                 deployment |-> TextOf(Member(c.step1, "deploymentType"), "name"),
                 nodes |-> NumberOf(c.step1, "selectedNodes"),
                 nodesPerRack |-> NumberOf(c.step1, "nodesPerRack"),
                 totalRacks |-> NumberOf(c.step1, "totalRacks")],
     power |-> [configuration |-> TextOf(Member(c.step2, "powerConfiguration"), "name"),
                region |-> TextOf(Member(c.step2, "region"), "name"),
                efficiency |-> NumberOf(c.step2, "calculatedEfficiency"),
                estimatedConsumption |-> NumberOf(c.step2, "estimatedPowerConsumption")],
     storage |-> [protocol |-> TextOf(Member(c.step3, "storageProtocol"), "name"),
                  vendor |-> TextOf(Member(c.step3, "storageVendor"), "name"),
                  support |-> TextOf(Member(c.step3, "supportOption"), "name")],
     version |-> "1.0",
     pricing |-> Undefined]

\* getFinalConfiguration that stores the configuration it has read
afterGetFinalConfiguration_Saves(sv) == updateConfiguration(sv, sv.config)

\* the state after getFinalConfiguration(): the method writes nothing
afterGetFinalConfiguration(sv) == sv

\* if (this.currentPrice) finalConfig.pricing = {...}
withPricing(finalConfig, price) ==
    IF price # NoPrice
    THEN [finalConfig EXCEPT !.pricing = [total_price_usd |-> price.price_usd,
                                          currency |-> price.currency,
                                          nodes_count |-> price.nodes_count]]
    ELSE finalConfig

isConfigurationComplete(w) ==
    /\ w.config.step1 # Undefined
    /\ w.config.step2 # Undefined
    /\ w.config.step3 # Undefined

\* the body of the request of onGenerateConfiguration
saveRequestBody(w) == withPricing(getFinalConfiguration(w.config), w.currentPrice)

\* the document onExportJSON hands to the browser as a download
exportedJSON(w) == withPricing(getFinalConfiguration(w.config), w.currentPrice)

\* onExportJSON: nothing but the download; isExporting is false again at its end
onExportJSON(w) == w

\* get displayPrice; the amount stands for price_usd.toLocaleString()
displayPrice(w) ==
    IF w.isPriceLoading THEN [text |-> "Loading..."]
    ELSE IF w.priceError THEN [text |-> "Error loading price"]
    ELSE IF w.currentPrice # NoPrice THEN [text |-> "$", amount |-> w.currentPrice.price_usd]
    ELSE [text |-> "Price not available"]

\* onGenerateConfiguration up to the await: the payload is assembled and posted
onGenerateConfiguration(w) ==
    IF ~isConfigurationComplete(w) THEN w
    ELSE [w EXCEPT !.isGenerating = TRUE, !.saveReqs = @ + 1]

\* onGenerateConfiguration after the await, the response being a success
saveSucceeded(w) ==
    LET answered  == [w EXCEPT !.saveReqs = @ - 1]
        completed == completeConfiguration(answered)
        generated == markAsGenerated(completed)
        reloaded  == loadConfiguration(generated)
    IN [reloaded EXCEPT !.isGenerating = FALSE]

\* the catch block without completeConfiguration() and markAsGenerated()
saveFailed_NotMarked(w) ==
    LET answered == [w EXCEPT !.saveReqs = @ - 1]
        reloaded == loadConfiguration(answered)
    IN [reloaded EXCEPT !.isGenerating = FALSE]

\* the catch block without the finally block after it: isGenerating stays
saveFailed_NoFinally(w) ==
    LET answered  == [w EXCEPT !.saveReqs = @ - 1]
        completed == completeConfiguration(answered)
        generated == markAsGenerated(completed)
    IN loadConfiguration(generated)

\* onGenerateConfiguration after the await, the request having failed: the catch block
saveFailed(w) ==
    LET answered  == [w EXCEPT !.saveReqs = @ - 1]
        completed == completeConfiguration(answered)
        generated == markAsGenerated(completed)
        reloaded  == loadConfiguration(generated)
    IN [reloaded EXCEPT !.isGenerating = FALSE]

\* onNewConfiguration, the user having confirmed
onNewConfiguration(w) == navigateToStep(resetConfiguration(w), 1)

\* AppComponent.onStepClick
onStepClick(w, step) ==
    IF isStepAccessible(w.config, step) THEN navigateToStep(w, step) ELSE w

\* ngOnInit: loadConfiguration(), the price subscription, and the subscription
\* to configuration$, whose callback runs at once with the current value
ngOnInit(w) == loadPricingData([loadConfiguration(w) EXCEPT !.observers = @ + 1])

\* The page is loaded: the requests of the page before are gone with it, the
\* services are constructed (the state from the stored item, no cached price)
\* and the review component is initialised.
pageLoad(w) ==
    ngOnInit([config |-> constructor(w.store), store |-> w.store, observers |-> 0,
              currentPrice |-> NoPrice, priceReqs |-> [n \in NodeCounts |-> 0],
              saveReqs |-> 0, isGenerating |-> FALSE, isPriceLoading |-> FALSE,
              priceError |-> FALSE, posted |-> w.posted])

-----------------------------------------------------------------------------
(* The forms of steps 1 and 2 driven by the user, over each catalog of       *)
(* step 2. The form of step k takes events while the wizard shows step k.    *)
(* The template that creates the components is not part of the source, so    *)
(* the step-2 component may be kept between visits or be created anew:       *)
(* Step2NgOnInit may run while step 2 is shown, or not at all.               *)

FormInit ==
    /\ config = InitialConfig
    /\ store = NoItem
    /\ observers = 0
    /\ currentPrice = NoPrice
    /\ priceReqs = [n \in NodeCounts |-> 0]
    /\ saveReqs = 0
    /\ isGenerating = FALSE
    /\ isPriceLoading = FALSE
    /\ priceError = FALSE
    /\ posted = Undefined
    /\ \E t \in PowerCalculations :
           forms = [step1 |-> InitialStep1Form, step2 |-> InitialStep2Form(t)]
    /\ last = [op |-> "init", arg |-> 0, pre |-> InitialConfig]

Step1SelectSystemType ==
    /\ config.currentStep = 1
    /\ Stepped("step1.onSystemTypeSelect", X300, Sv,
               [forms EXCEPT !.step1 = onSystemTypeSelect(@, X300)])

Step1SelectDeploymentType ==
    /\ config.currentStep = 1
    /\ \E deploymentType \in forms.step1.availableDeploymentTypes :
           Stepped("step1.onDeploymentTypeSelect", deploymentType, Sv,
                   [forms EXCEPT !.step1 = onDeploymentTypeSelect(@, deploymentType)])

\* the options of the select are the available counts and an empty one, which reads as 0
Step1SelectNodes ==
    /\ config.currentStep = 1
    /\ \E value \in forms.step1.availableNodeCounts \cup {0} :
           Stepped("step1.onNodesSelect", value, Sv,
                   [forms EXCEPT !.step1 = onNodesSelect(@, value)])

Step1SelectNodesPerRack ==
    /\ config.currentStep = 1
    /\ \E value \in forms.step1.availableNodesPerRack \cup {0} :
           Stepped("step1.onNodesPerRackSelect", value, Sv,
                   [forms EXCEPT !.step1 = onNodesPerRackSelect(@, value)])

\* calculateTotalRacks() as the summary of the form reads it
Step1CalculateTotalRacks ==
    /\ config.currentStep = 1
    /\ Stepped("step1.calculateTotalRacks",
               [nodes |-> forms.step1.selectedNodes,
                nodesPerRack |-> forms.step1.selectedNodesPerRack,
                returned |-> calculateTotalRacks(forms.step1.selectedNodes,
                                                 forms.step1.selectedNodesPerRack)],
               Sv, forms)

Step1FormOnNext ==
    /\ config.currentStep = 1
    /\ Stepped("step1.onNext", forms.step1, step1_onNext(Sv, forms.step1), forms)

Step2SelectPowerConfiguration ==
    /\ config.currentStep = 2
    /\ \E powerConfig \in PowerConfigurations :
       \E r \in {onPowerConfigurationSelect(forms.step2, powerConfig, config.step1)} :
           Stepped("step2.onPowerConfigurationSelect", [threw |-> r.threw], Sv,
                   [forms EXCEPT !.step2 = r.form])

\* the options of the select are the regions and an empty one
Step2SelectRegion ==
    /\ config.currentStep = 2
    /\ \E regionId \in {reg.id : reg \in Regions} \cup {<<>>} :
       \E r \in {onRegionSelect(forms.step2, regionId, config.step1)} :
           Stepped("step2.onRegionSelect", [threw |-> r.threw], Sv,
                   [forms EXCEPT !.step2 = r.form])

Step2FormOnNext ==
    /\ config.currentStep = 2
    /\ Stepped("step2.onNext", forms.step2, step2_onNext(Sv, forms.step2), forms)

Step2FormOnPrevious ==
    /\ config.currentStep = 2
    /\ Stepped("step2.onPrevious", 0, navigateToStep(Sv, 1), forms)

\* a new instance of the step-2 component is created while step 2 is shown
Step2NgOnInit ==
    /\ config.currentStep = 2
    /\ \E r \in {step2_loadConfiguration(forms.step2.config.powerCalculation, config)} :
           Stepped("step2.ngOnInit", [threw |-> r.threw], Sv, [forms EXCEPT !.step2 = r.form])

\* onNext of step 3, with the payload of its form
Step3FormOnNext ==
    /\ config.currentStep = 3
    /\ Stepped("step3.onNext", 0,
               navigateToStep(updateStep3(Sv, Step3Data(HighSpeed, WekaIO, Support5y)), 4),
               forms)

FormOnStepClick ==
    \E step \in 1..4 : Stepped("onStepClick", step, onStepClick(Sv, step), forms)

FormNext ==
    \/ Step1SelectSystemType
    \/ Step1SelectDeploymentType
    \/ Step1SelectNodes
    \/ Step1SelectNodesPerRack
    \/ Step1CalculateTotalRacks
    \/ Step1FormOnNext
    \/ Step2SelectPowerConfiguration
    \/ Step2SelectRegion
    \/ Step2FormOnNext
    \/ Step2FormOnPrevious
    \/ Step2NgOnInit
    \/ Step3FormOnNext
    \/ FormOnStepClick

FormSpec == FormInit /\ [][FormNext]_vars

-----------------------------------------------------------------------------
(* The hash loop run over texts that grow by one code unit at a time: a     *)
(* quote, a brace and the largest code unit. Seven rounds are enough for    *)
(* the hash to leave the 32 bits.                                           *)

\* the longest text
MaxHashLen == 8

HashChars == {34, 123, 65535}

HashInit ==
    /\ config = InitialConfig
    /\ store = NoItem
    /\ observers = 0
    /\ currentPrice = NoPrice
    /\ priceReqs = [n \in NodeCounts |-> 0]
    /\ saveReqs = 0
    /\ isGenerating = FALSE
    /\ isPriceLoading = FALSE
    /\ priceError = FALSE
    /\ posted = Undefined
    /\ forms = InitialForms
    /\ last = [op |-> "hash", arg |-> [configString |-> <<>>, hash |-> HashString[<<>>]],
               pre |-> InitialConfig]

\* the loop of calculateConfigHash over a text one code unit longer
HashLonger ==
    /\ Len(last.arg.configString) < MaxHashLen
    /\ \E char \in HashChars :
       \E configString \in {last.arg.configString \o <<char>>} :
           Called("hash", [configString |-> configString, hash |-> HashString[configString]], Sv)

HashNext == HashLonger

HashSpec == HashInit /\ [][HashNext]_vars

-----------------------------------------------------------------------------
(* getFinalConfiguration called on a service that was constructed over the   *)
(* snapshot of a partial state: steps that are missing, payloads that lack   *)
(* a member, options that lack their name. navigateToStep moves the state    *)
(* away from the snapshot between the calls.                                 *)

\* the latest reading of the clock, and the most calls in a row
MaxTimestamp == 2
MaxCalls == 2

PartialStep1 ==
    {Undefined,
     Step1Data(MiniCluster, 4, 4),
     [Step1Data(MiniCluster, 5, 4) EXCEPT !.systemType = [id |-> X300.id]],
     [deploymentType |-> MiniCluster, nodesPerRack |-> 4]}

PartialStep2 ==
    {Undefined,
     Step2Data(FullDC, RegionUS, 95, 9405),
     [powerConfiguration |-> [id |-> FullDC.id], estimatedPowerConsumption |-> 9900]}

PartialStep3 ==
    {Undefined,
     Step3Data(HighSpeed, WekaIO, Support5y),
     [storageProtocol |-> HighSpeed, storageVendor |-> [id |-> WekaIO.id]]}

PartialStates ==
    [step1 : PartialStep1, step2 : PartialStep2, step3 : PartialStep3,
     currentStep : {4}, isComplete : {FALSE}, lastGeneratedHash : {Undefined}]

AssemblyInit ==
    /\ store \in {JSONStringify(c) : c \in PartialStates}
    /\ config = constructor(store)
    /\ observers = 0
    /\ currentPrice = NoPrice
    /\ priceReqs = [n \in NodeCounts |-> 0]
    /\ saveReqs = 0
    /\ isGenerating = FALSE
    /\ isPriceLoading = FALSE
    /\ priceError = FALSE
    /\ posted = Undefined
    /\ forms = InitialForms
    /\ last = [op |-> "constructor", arg |-> store, pre |-> InitialConfig]

\* the call returns the document with timestamp: new Date().toISOString();
\* calls counts the calls since the last operation that was not one
AssemblyGetFinalConfiguration ==
    \E t \in 1..MaxTimestamp :
        LET before == IF last.op = "getFinalConfiguration" THEN last.arg
                      ELSE [configuration |-> Undefined, timestamp |-> 1, calls |-> 0]
        IN /\ before.calls < MaxCalls
           /\ t >= before.timestamp
           /\ Called("getFinalConfiguration",
                     [configuration |-> getFinalConfiguration(config),
                      timestamp |-> t, calls |-> before.calls + 1],
                     afterGetFinalConfiguration(Sv))

AssemblyNavigateToStep ==
    \E s \in 1..4 : Called("navigateToStep", s, navigateToStep(Sv, s))

AssemblyNext == AssemblyGetFinalConfiguration \/ AssemblyNavigateToStep

AssemblySpec == AssemblyInit /\ [][AssemblyNext]_vars

-----------------------------------------------------------------------------
(* The wizard driven by the user and by the responses of the backend.        *)
(* The form of step k and the review component take events while the wizard  *)
(* shows step k (AppComponent.currentStep); the review component and its     *)
(* subscription to configuration$, which ngOnDestroy does not cancel, exist  *)
(* from the start.                                                           *)

AppInit == Constructed /\ observers = 1

Step1OnNext ==
    /\ config.currentStep = 1
    /\ \E d \in Step1Inputs : Called("step1.onNext", d, navigateToStep(updateStep1(Sv, d), 2))

Step2OnPrevious ==
    /\ config.currentStep = 2
    /\ Called("step2.onPrevious", 0, navigateToStep(Sv, 1))

Step2OnNext ==
    /\ config.currentStep = 2
    /\ \E d \in Step2Inputs : Called("step2.onNext", d, navigateToStep(updateStep2(Sv, d), 3))

Step3OnPrevious ==
    /\ config.currentStep = 3
    /\ Called("step3.onPrevious", 0, navigateToStep(Sv, 2))

Step3OnNext ==
    /\ config.currentStep = 3
    /\ \E d \in Step3Inputs : Called("step3.onNext", d, navigateToStep(updateStep3(Sv, d), 4))

Step4OnPrevious ==
    /\ config.currentStep = 4
    /\ Called("step4.onPrevious", 0, navigateToStep(Sv, 3))

Step4OnEditStep ==
    /\ config.currentStep = 4
    /\ \E step \in 1..3 : Called("step4.onEditStep", step, navigateToStep(Sv, step))

OnGenerateConfiguration ==
    /\ config.currentStep = 4
    /\ saveReqs < MaxSaveReqs
    /\ Called("onGenerateConfiguration",
              IF isConfigurationComplete(Sv) THEN saveRequestBody(Sv) ELSE Undefined,
              onGenerateConfiguration(Sv))

OnExportJSON ==
    /\ config.currentStep = 4
    /\ Called("onExportJSON",
              IF isConfigurationComplete(Sv) THEN exportedJSON(Sv) ELSE Undefined,
              onExportJSON(Sv))

SaveSucceeded ==
    /\ saveReqs > 0
    /\ Called("saveSucceeded", 0, saveSucceeded(Sv))

SaveFailed ==
    /\ saveReqs > 0
    /\ Called("saveFailed", 0, saveFailed(Sv))

OnNewConfiguration ==
    /\ config.currentStep = 4
    /\ Called("onNewConfiguration", 0, onNewConfiguration(Sv))

OnStepClick == \E step \in 1..4 : Called("onStepClick", step, onStepClick(Sv, step))

PriceLoaded ==
    \E n \in NodeCounts :
        /\ priceReqs[n] > 0
        /\ Called("priceLoaded", n, priceLoaded(Sv, n))

PriceFailed ==
    \E n \in NodeCounts :
        /\ priceReqs[n] > 0
        /\ Called("priceFailed", n, priceFailed(Sv, n))

PageLoad == Called("pageLoad", 0, pageLoad(Sv))

AppNext ==
    \/ PageLoad
    \/ Step1OnNext
    \/ Step2OnPrevious
    \/ Step2OnNext
    \/ Step3OnPrevious
    \/ Step3OnNext
    \/ Step4OnPrevious
    \/ Step4OnEditStep
    \/ OnGenerateConfiguration
    \/ OnExportJSON
    \/ SaveSucceeded
    \/ SaveFailed
    \/ OnNewConfiguration
    \/ OnStepClick
    \/ PriceLoaded
    \/ PriceFailed

AppSpec == AppInit /\ [][AppNext]_vars

-----------------------------------------------------------------------------
(* The wizard with the body of the save request that was posted last kept in *)
(* posted. The price requests of the review component, which do not touch    *)
(* the configuration, are left out: no subscription to configuration$.       *)

SaveRaceInit == Constructed /\ observers = 0

\* onGenerateConfiguration; the body it posts is kept
GenerateAndPost ==
    /\ config.currentStep = 4
    /\ saveReqs < MaxSaveReqs
    /\ isConfigurationComplete(Sv)
    /\ Called("onGenerateConfiguration", saveRequestBody(Sv),
              [onGenerateConfiguration(Sv) EXCEPT !.posted = saveRequestBody(Sv)])

SaveRaceNext ==
    \/ Step1OnNext
    \/ Step2OnPrevious
    \/ Step2OnNext
    \/ Step3OnPrevious
    \/ Step3OnNext
    \/ Step4OnPrevious
    \/ Step4OnEditStep
    \/ GenerateAndPost
    \/ SaveSucceeded
    \/ SaveFailed
    \/ OnNewConfiguration
    \/ OnStepClick

SaveRaceSpec == SaveRaceInit /\ [][SaveRaceNext]_vars

-----------------------------------------------------------------------------
(* The review step on its own: the wizard shows step 4 with the three        *)
(* payloads, the price request of the last emission has been answered, and   *)
(* the user generates, exports and reloads the page. Every request gets its  *)
(* response in the end, a success or a failure. A response to a save request *)
(* issues three price requests (completeConfiguration, markAsGenerated and   *)
(* loadConfiguration), so within MaxPriceReqs it is handled once the price   *)
(* requests before it are answered.                                          *)

ReviewInit ==
    /\ \E s1 \in Step1Inputs :
           /\ config = [InitialConfig EXCEPT !.step1 = s1,
                                             !.step2 = Step2Data(FullDC, RegionUS, 95, 9405),
                                             !.step3 = Step3Data(HighSpeed, WekaIO, Support5y),
                                             !.currentStep = 4]
           /\ \/ currentPrice = PriceResponse(s1.selectedNodes) /\ priceError = FALSE
              \/ currentPrice = NoPrice /\ priceError = TRUE
    /\ store = JSONStringify(config)
    /\ observers = 1
    /\ priceReqs = [n \in NodeCounts |-> 0]
    /\ saveReqs = 0
    /\ isGenerating = FALSE
    /\ isPriceLoading = FALSE
    /\ posted = Undefined
    /\ forms = InitialForms
    /\ last = [op |-> "priceAnswered", arg |-> config.step1.selectedNodes, pre |-> config]

ReviewNext ==
    \/ OnGenerateConfiguration
    \/ OnExportJSON
    \/ SaveSucceeded
    \/ SaveFailed
    \/ PriceLoaded
    \/ PriceFailed
    \/ PageLoad

ReviewSpec ==
    /\ ReviewInit
    /\ [][ReviewNext]_vars
    /\ WF_vars(SaveSucceeded \/ SaveFailed)
    /\ WF_vars(PriceLoaded \/ PriceFailed)

-----------------------------------------------------------------------------
(* Claims about the service's operations, checked under Spec *)

\* C1: updateStep n (n = 1, 2, 3), from any prior state, replaces the step-n
\* payload with the given data, sets currentStep to max(previous currentStep,
\* n + 1), sets isComplete to false and clears lastGeneratedHash.
C1_UpdateStepEffect ==
    /\ last.op = "updateStep1" =>
          /\ config.step1 = last.arg
          /\ config.currentStep = Max(last.pre.currentStep, 2)
          /\ config.isComplete = FALSE
          /\ config.lastGeneratedHash = Undefined
    /\ last.op = "updateStep2" =>
          /\ config.step2 = last.arg
          /\ config.currentStep = Max(last.pre.currentStep, 3)
          /\ config.isComplete = FALSE
          /\ config.lastGeneratedHash = Undefined
    /\ last.op = "updateStep3" =>
          /\ config.step3 = last.arg
          /\ config.currentStep = Max(last.pre.currentStep, 4)
          /\ config.isComplete = FALSE
          /\ config.lastGeneratedHash = Undefined

\* updateStep1 replaced a different step-1 payload of a completed, generated
\* configuration that stood at step 4
C1_Witness ==
    /\ last.op = "updateStep1"
    /\ last.pre.currentStep = 4
    /\ last.pre.isComplete
    /\ last.pre.lastGeneratedHash # Undefined
    /\ last.pre.step1 # Undefined
    /\ last.pre.step1 # last.arg
    /\ config.currentStep = 4

\* C2 (as stated): no operation other than resetConfiguration ever makes
\* currentStep smaller than it was before the operation.
C2_NeverDecreasesExceptReset ==
    last.op \notin {"init", "resetConfiguration"} =>
        config.currentStep >= last.pre.currentStep

\* C2 (amended): updateStep1/2/3, completeConfiguration and markAsGenerated
\* never make currentStep smaller; only navigateToStep (to a step below the
\* current one) and resetConfiguration lower it.
C2_OnlyNavigateAndResetDecrease ==
    /\ last.op \in {"updateStep1", "updateStep2", "updateStep3",
                    "completeConfiguration", "markAsGenerated"} =>
          config.currentStep >= last.pre.currentStep
    /\ config.currentStep < last.pre.currentStep =>
          \/ last.op = "resetConfiguration"
          \/ last.op = "navigateToStep" /\ config.currentStep = last.arg

\* updateStep2 ran while the wizard stood at step 4 and left it there
C2_Witness ==
    /\ last.op = "updateStep2"
    /\ last.pre.currentStep = 4
    /\ config.currentStep = 4

\* C3: after each state-changing operation the snapshot stored under
\* 'hpc-configuration' equals the in-memory state.
C3_SnapshotEqualsState ==
    last.op \in {"updateStep1", "updateStep2", "updateStep3", "navigateToStep",
                 "completeConfiguration", "markAsGenerated", "resetConfiguration"} =>
        /\ store # NoItem
        /\ JSONParse(store) = config

\* C4: hasConfigurationChanged() right after updateStep n is true, also when
\* the prior state was marked generated and the new payload equals the old one.
C4_ChangedAfterUpdate ==
    last.op \in {"updateStep1", "updateStep2", "updateStep3"} =>
        hasConfigurationChanged(config)

\* updateStep1 stored again the payload of a configuration marked generated
C4_Witness ==
    /\ last.op = "updateStep1"
    /\ last.pre.step1 = last.arg
    /\ ~hasConfigurationChanged(last.pre)
    /\ config.step1 = last.pre.step1

\* C5: hasConfigurationChanged() is false right after markAsGenerated(), in any
\* state (also with step payloads undefined), and it stays false through
\* navigateToStep and completeConfiguration.
C5_UnchangedAfterMarkAsGenerated ==
    /\ last.op = "markAsGenerated" => ~hasConfigurationChanged(config)
    /\ (/\ last.op \in {"navigateToStep", "completeConfiguration"}
        /\ ~hasConfigurationChanged(last.pre)) => ~hasConfigurationChanged(config)

\* a navigation moved a generated configuration with a missing payload to
\* another step
C5_Witness ==
    /\ last.op = "navigateToStep"
    /\ ~hasConfigurationChanged(last.pre)
    /\ config.currentStep # last.pre.currentStep
    /\ config.step2 = Undefined
    /\ config.step1 # Undefined

\* C6: navigateToStep(step) with step > currentStep changes nothing; with
\* step <= currentStep it sets currentStep to step (and nothing else).
C6_NavigateGuard ==
    last.op = "navigateToStep" =>
        IF last.arg > last.pre.currentStep
        THEN config = last.pre
        ELSE config = [last.pre EXCEPT !.currentStep = last.arg]

\* a navigation one step ahead of currentStep was ignored
C6_Witness ==
    /\ last.op = "navigateToStep"
    /\ last.pre.currentStep = 2
    /\ last.arg = 3
    /\ config.currentStep = 2
    /\ config.step1 # Undefined

\* C7: currentStep is in 1..4 in every reachable state.
C7_CurrentStepInRange == config.currentStep \in 1..4

\* C8: resetConfiguration() yields exactly the initial empty state, and
\* hasConfigurationChanged() is then true.
C8_ResetYieldsInitialState ==
    last.op = "resetConfiguration" =>
        /\ config.currentStep = 1
        /\ config.isComplete = FALSE
        /\ config.step1 = Undefined
        /\ config.step2 = Undefined
        /\ config.step3 = Undefined
        /\ config.lastGeneratedHash = Undefined
        /\ hasConfigurationChanged(config)

\* a completed, generated configuration with all three payloads was reset
C8_Witness ==
    /\ last.op = "resetConfiguration"
    /\ last.pre.isComplete
    /\ last.pre.lastGeneratedHash # Undefined
    /\ last.pre.step1 # Undefined
    /\ last.pre.step2 # Undefined
    /\ last.pre.step3 # Undefined
    /\ last.pre.currentStep = 4

\* C9: a payload that is present stays present through every operation but
\* resetConfiguration.
C9_PayloadClearedOnlyOnReset ==
    last.op \notin {"init", "resetConfiguration"} =>
        /\ last.pre.step1 # Undefined => config.step1 # Undefined
        /\ last.pre.step2 # Undefined => config.step2 # Undefined
        /\ last.pre.step3 # Undefined => config.step3 # Undefined

\* updateStep3 ran on a state that held the payloads of steps 1 and 2
C9_Witness ==
    /\ last.op = "updateStep3"
    /\ last.pre.step1 # Undefined
    /\ last.pre.step2 # Undefined
    /\ config.step1 = last.pre.step1
    /\ config.step2 = last.pre.step2

\* what a call of C34 may change: op has run and the members of the state
\* other than those named in own are as they were
C34_OnlyOwn(op, own) ==
    last'.op = op =>
        \A k \in DOMAIN config \ own : k \in DOMAIN config' /\ config'[k] = config[k]

\* C34: navigateToStep changes at most currentStep, completeConfiguration
\* only isComplete, markAsGenerated only lastGeneratedHash, updateStep n
\* leaves the payloads of the other two steps as they are, and
\* hasConfigurationChanged, isStepAccessible and getCurrentConfiguration
\* change nothing.
C34_FrameEffects ==
    [][/\ C34_OnlyOwn("navigateToStep", {"currentStep"})
       /\ C34_OnlyOwn("completeConfiguration", {"isComplete"})
       /\ C34_OnlyOwn("markAsGenerated", {"lastGeneratedHash"})
       /\ C34_OnlyOwn("updateStep1", {"step1", "currentStep", "isComplete", "lastGeneratedHash"})
       /\ C34_OnlyOwn("updateStep2", {"step2", "currentStep", "isComplete", "lastGeneratedHash"})
       /\ C34_OnlyOwn("updateStep3", {"step3", "currentStep", "isComplete", "lastGeneratedHash"})
       /\ last'.op \in {"hasConfigurationChanged", "isStepAccessible", "getCurrentConfiguration"} =>
              UNCHANGED <<config, store, observers, currentPrice, priceReqs, saveReqs,
                          isGenerating, isPriceLoading, priceError>>]_vars

\* markAsGenerated stored a hash in a state that held the three payloads and
\* was not complete, and left it not complete
C34_Witness ==
    /\ last.op = "markAsGenerated"
    /\ last.pre.lastGeneratedHash = Undefined
    /\ config.lastGeneratedHash # Undefined
    /\ config.step1 # Undefined /\ config.step2 # Undefined /\ config.step3 # Undefined
    /\ ~config.isComplete
    /\ [config EXCEPT !.lastGeneratedHash = Undefined] = last.pre

\* C26: hasConfigurationChanged() is true if and only if lastGeneratedHash is
\* undefined: a hash that is stored is the hash of the payloads now in the
\* state, so the answer never rests on two hashes being different.
C26_ChangedIffNoHash ==
    /\ hasConfigurationChanged(config) <=> config.lastGeneratedHash = Undefined
    /\ config.lastGeneratedHash # Undefined =>
           config.lastGeneratedHash = calculateConfigHash(config)

\* a state marked generated, then moved to an earlier step: the hash is
\* stored and hasConfigurationChanged() is false
C26_Witness ==
    /\ last.op = "navigateToStep"
    /\ last.pre.currentStep > config.currentStep
    /\ config.step1 # Undefined
    /\ config.lastGeneratedHash # Undefined
    /\ ~hasConfigurationChanged(config)

-----------------------------------------------------------------------------
(* Claims about the review component, checked under AppSpec *)

\* C10: once the response to the save request of onGenerateConfiguration is
\* handled, be it a success or a failure, the configuration is marked complete
\* and generated: isComplete is true, lastGeneratedHash is set and
\* hasConfigurationChanged() is false; the handler has run to its end.
C10_MarkedAfterSaveResponse ==
    last.op \in {"saveSucceeded", "saveFailed"} =>
        /\ config.isComplete
        /\ config.lastGeneratedHash # Undefined
        /\ ~hasConfigurationChanged(config)
        /\ isGenerating = FALSE

\* a save request posted with all three payloads has failed and the failure
\* has been handled
C10_Witness ==
    /\ last.op = "saveFailed"
    /\ config.step1 # Undefined
    /\ config.step2 # Undefined
    /\ config.step3 # Undefined
    /\ config.isComplete

\* C11: at no point are two getPriceByNodes requests outstanding at the same
\* time.
C11_AtMostOnePriceRequest == PriceReqCount(Sv) <= 1

\* C12: at most one save request is in flight: an invocation of
\* onGenerateConfiguration while an earlier one awaits its response
\* (isGenerating is true) issues no second request.
C12_AtMostOneSaveRequest == saveReqs <= 1

\* The review step is not blocked: Previous leads to step 3, and with the
\* three payloads present generate posts a request and export hands out a
\* document, both without a pricing block.
C14_NotBlocked ==
    /\ config.currentStep = 4 => navigateToStep(Sv, 3).config.currentStep = 3
    /\ isConfigurationComplete(Sv) =>
          /\ onGenerateConfiguration(Sv).saveReqs = saveReqs + 1
          /\ saveRequestBody(Sv).pricing = Undefined
          /\ exportedJSON(Sv).pricing = Undefined

\* C14 (as stated): after a price request has failed, none other pending, the
\* cached price is null, the review step displays "Price not available", and
\* navigation, export and generate remain possible, generate sending a
\* payload without a pricing block.
C14_PriceNotAvailableAfterFailure ==
    (last.op = "priceFailed" /\ PriceReqCount(Sv) = 0) =>
        /\ currentPrice = NoPrice
        /\ displayPrice(Sv) = [text |-> "Price not available"]
        /\ C14_NotBlocked

\* C14 (amended): as above, but the review step displays "Error loading
\* price": priceError is set by the failure and is looked at before the price.
C14_ErrorShownAfterFailure ==
    (last.op = "priceFailed" /\ PriceReqCount(Sv) = 0) =>
        /\ currentPrice = NoPrice
        /\ displayPrice(Sv) = [text |-> "Error loading price"]
        /\ C14_NotBlocked

\* the last pending price request has failed while the review step is shown
\* with the three payloads present
C14_Witness ==
    /\ last.op = "priceFailed"
    /\ PriceReqCount(Sv) = 0
    /\ config.currentStep = 4
    /\ isConfigurationComplete(Sv)
    /\ currentPrice = NoPrice

\* a document assembled by generate or export has a pricing block exactly
\* when the cached price is not null, and the block is made of that price
C15_BlockFromCachedPrice ==
    (last.op \in {"onGenerateConfiguration", "onExportJSON"} /\ last.arg # Undefined) =>
        IF currentPrice = NoPrice
        THEN last.arg.pricing = Undefined
        ELSE last.arg.pricing = [total_price_usd |-> currentPrice.price_usd,
                                 currency |-> currentPrice.currency,
                                 nodes_count |-> currentPrice.nodes_count]

\* the cached price is the outcome of the price request that completed last:
\* a response sets it (to the price, or to null on a failure), a page load
\* starts without one, and nothing else touches it
C15_CachedPriceIsLastOutcome ==
    /\ last'.op = "priceLoaded" => currentPrice' = PriceResponse(last'.arg)
    /\ last'.op = "priceFailed" => currentPrice' = NoPrice
    /\ last'.op = "pageLoad" => currentPrice' = NoPrice
    /\ last'.op \notin {"priceLoaded", "priceFailed", "pageLoad"} => currentPrice' = currentPrice

\* C15: the configuration assembled for the save request or for the export
\* holds a pricing block if and only if the price request that completed
\* last succeeded (the cached price is not null) when it is assembled, and
\* the block carries that response's price, currency and node count.
C15_PricingBlockIffPriceFetched ==
    /\ currentPrice = NoPrice
    /\ []C15_BlockFromCachedPrice
    /\ [][C15_CachedPriceIsLastOutcome]_vars

\* generate posted a document with the price of a request for another node
\* count than the one now selected
C15_Witness ==
    /\ last.op = "onGenerateConfiguration"
    /\ last.arg # Undefined
    /\ last.arg.pricing # Undefined
    /\ last.arg.pricing.nodes_count # last.arg.system.nodes

\* C23: the wizard shows step k only when the payloads of the steps before k
\* are present; the review step is shown only with all three payloads.
C23_StepsGated ==
    /\ config.currentStep > 1 => config.step1 # Undefined
    /\ config.currentStep > 2 => config.step2 # Undefined
    /\ config.currentStep > 3 => config.step3 # Undefined

\* the review step reached by onNext of step 3 after an edit of step 1: the
\* three payloads are there
C23_Witness ==
    /\ last.op = "step3.onNext"
    /\ last.pre.step3 # Undefined
    /\ config.currentStep = 4
    /\ config.step1 # Undefined
    /\ config.step2 # Undefined
    /\ config.step3 # Undefined

\* C24: the cached price is the result of the price response that arrived
\* last, whatever request it answers: a successful response puts its price
\* in the cache, a failed one puts null there, also when the request was for
\* another node count than the one now selected, and between two responses
\* nothing but a page load changes the cache.
C24_LastResponseWins ==
    [][/\ last'.op = "priceLoaded" =>
            /\ currentPrice' = PriceResponse(last'.arg)
            /\ currentPrice'.nodes_count = last'.arg
       /\ last'.op = "priceFailed" => currentPrice' = NoPrice
       /\ last'.op \notin {"priceLoaded", "priceFailed", "pageLoad"} =>
            currentPrice' = currentPrice]_vars

\* no request is outstanding and the cache holds the price of 4 nodes, the
\* response that arrived last, while 8 nodes are selected
C24_Witness ==
    /\ last.op = "priceLoaded"
    /\ last.arg = 4
    /\ PriceReqCount(Sv) = 0
    /\ config.step1 # Undefined
    /\ config.step1.selectedNodes = 8
    /\ currentPrice = PriceResponse(4)

\* C25: onGenerateConfiguration comes to its end: isGenerating is false in
\* every state without an outstanding save request, and, the save request
\* getting a response in the end, isGenerating set by the handler is false
\* again later.
C25_GenerateTerminates ==
    /\ [](saveReqs = 0 => ~isGenerating)
    /\ isGenerating ~> ~isGenerating

\* the failure of the only outstanding save request has been handled:
\* isGenerating is false again and the state is marked complete
C25_Witness ==
    /\ last.op = "saveFailed"
    /\ saveReqs = 0
    /\ ~isGenerating
    /\ config.isComplete

\* C27: when the state is marked generated (a hash is stored and
\* hasConfigurationChanged() is false), the payloads in the state are the
\* ones from which the body of the save request posted last was assembled.
\* Checked under SaveRaceSpec.
C27_GeneratedIsPosted ==
    (config.lastGeneratedHash # Undefined /\ ~hasConfigurationChanged(config)) =>
        /\ posted # Undefined
        /\ posted.system = getFinalConfiguration(config).system
        /\ posted.power = getFinalConfiguration(config).power
        /\ posted.storage = getFinalConfiguration(config).storage

\* C28: a pricing block that onGenerateConfiguration or onExportJSON attaches
\* is the price of the payload's own node count: its nodes_count equals
\* system.nodes, which is step1.selectedNodes.
C28_PriceOfOwnNodes ==
    (/\ last.op \in {"onGenerateConfiguration", "onExportJSON"}
     /\ last.arg # Undefined
     /\ last.arg.pricing # Undefined) =>
        /\ last.arg.system.nodes = config.step1.selectedNodes
        /\ last.arg.pricing.nodes_count = last.arg.system.nodes

\* C29: a step whose payload is present is accessible, and with the three
\* payloads present the review step is accessible, also after the user has
\* gone back to an earlier step.
C29_CompletedStaysAccessible ==
    /\ config.step1 # Undefined => isStepAccessible(config, 1)
    /\ config.step2 # Undefined => isStepAccessible(config, 2)
    /\ config.step3 # Undefined => isStepAccessible(config, 3)
    /\ isConfigurationComplete(Sv) => isStepAccessible(config, 4)

\* C31: isComplete = true implies that step1, step2 and step3 are all
\* present; and onGenerateConfiguration or onExportJSON invoked with a step
\* missing changes nothing and issues no request.
C31_CompleteIsConfigured ==
    /\ [](config.isComplete => isConfigurationComplete(Sv))
    /\ [][(/\ last'.op \in {"onGenerateConfiguration", "onExportJSON"}
           /\ ~isConfigurationComplete(Sv)) =>
              UNCHANGED <<config, store, observers, currentPrice, priceReqs, saveReqs,
                          isGenerating, isPriceLoading, priceError>>]_vars

\* C32: between the events of the user interface isComplete is true exactly
\* when lastGeneratedHash is set: the response of a generate sets both, and a
\* step update or a reset leaves both cleared.
C32_CompleteIffGenerated ==
    /\ config.isComplete <=> config.lastGeneratedHash # Undefined
    /\ last.op \in {"saveSucceeded", "saveFailed"} =>
           config.isComplete /\ config.lastGeneratedHash # Undefined
    /\ last.op \in {"step1.onNext", "step2.onNext", "step3.onNext", "onNewConfiguration"} =>
           ~config.isComplete /\ config.lastGeneratedHash = Undefined

\* a step update has cleared both after a generate had set both
C32_Witness ==
    /\ last.op = "step2.onNext"
    /\ last.pre.isComplete
    /\ last.pre.lastGeneratedHash # Undefined
    /\ ~config.isComplete
    /\ config.lastGeneratedHash = Undefined

\* C33: whenever no price request is outstanding, isPriceLoading is false
\* and priceError is set exactly when the cached price is null after a failed
\* request, so that a price that was fetched is never displayed as "Error
\* loading price", whatever the order of the responses.
C33_PriceFlagsConsistent ==
    PriceReqCount(Sv) = 0 =>
        /\ ~isPriceLoading
        /\ priceError => currentPrice = NoPrice
        /\ last.op = "priceFailed" => priceError
        /\ currentPrice # NoPrice => displayPrice(Sv) # [text |-> "Error loading price"]

-----------------------------------------------------------------------------
(* Claims about the load of the stored snapshot, checked under LoadSpec *)

\* a stored item that is the snapshot of a WizardState
IsStoredWizardState(item) ==
    /\ {"currentStep", "isComplete"} \subseteq DOMAIN item
    /\ item.currentStep \in 1..4
    /\ item.isComplete \in BOOLEAN

\* C13: when the stored item is not a well-formed WizardState (unparseable
\* text, or JSON that is no WizardState object: null, a number, an object
\* without currentStep), the state after the load is the fresh initial state.
C13_CorruptSnapshotDiscarded ==
    (last.op = "constructor" /\ ~IsStoredWizardState(last.arg)) => config = InitialConfig

-----------------------------------------------------------------------------
(* Claims about the forms of steps 1 and 2, checked under FormSpec *)

\* the base-consumption table of the loaded catalog has no entry for the
\* deployment type, or none for the node count, of the stored step 1
C16_LookupMiss ==
    LET table == forms.step2.config.powerCalculation.baseConsumption
        deploymentType == config.step1.deploymentType.id
    IN \/ deploymentType \notin DOMAIN table
       \/ NatToString(config.step1.selectedNodes) \notin DOMAIN table[deploymentType]

\* C16: when the base-consumption table has no entry for the node count or
\* none for the deployment type, calculatePowerConsumption does not fail: it
\* takes the default base of 1000 and produces the estimated consumption.
C16_FallbackOnLookupMiss ==
    (/\ last.op \in {"step2.onPowerConfigurationSelect", "step2.onRegionSelect"}
     /\ forms.step2.selectedPowerConfiguration # JSNull
     /\ forms.step2.selectedRegion # JSNull
     /\ config.step1 # Undefined
     /\ C16_LookupMiss) =>
        /\ ~last.arg.threw
        /\ forms.step2.estimatedPowerConsumption =
              RoundedConsumption(1000,
                                 LookupOr(forms.step2.config.powerCalculation.efficiencyMultipliers,
                                          forms.step2.selectedPowerConfiguration.id, 100),
                                 powerMultiplier(forms.step2.selectedRegion))

\* C19: the step-1 payload that the form of step 1 has stored has a positive
\* node count and a positive number of nodes per rack, and its totalRacks is
\* the least number of racks that hold the nodes.
C19_StoredStep1Valid ==
    config.step1 # Undefined =>
        /\ config.step1.selectedNodes > 0
        /\ config.step1.nodesPerRack > 0
        /\ config.step1.totalRacks * config.step1.nodesPerRack >= config.step1.selectedNodes
        /\ (config.step1.totalRacks - 1) * config.step1.nodesPerRack < config.step1.selectedNodes

\* onNext has stored 5 nodes at 4 per rack, in 2 racks
C19_Witness ==
    /\ last.op = "step1.onNext"
    /\ last.pre.step1 = Undefined
    /\ config.step1 # Undefined
    /\ config.step1.selectedNodes = 5
    /\ config.step1.nodesPerRack = 4
    /\ config.step1.totalRacks = 2

\* C20: calculateTotalRacks returns the least number of racks that hold the
\* nodes when the node count and the nodes per rack are both positive (2 for
\* 8 at 4 and for 5 at 4), and 0 when either of them is null or 0.
C20_TotalRacksIsCeiling ==
    last.op = "step1.calculateTotalRacks" =>
        LET nodes == last.arg.nodes
            nodesPerRack == last.arg.nodesPerRack
            returned == last.arg.returned
        IN IF nodes = JSNull \/ nodesPerRack = JSNull THEN returned = 0
           ELSE IF nodes.num = 0 \/ nodesPerRack.num = 0 THEN returned = 0
           ELSE /\ returned * nodesPerRack.num >= nodes.num
                /\ (returned - 1) * nodesPerRack.num < nodes.num
                /\ (nodes.num = 8 /\ nodesPerRack.num = 4) => returned = 2
                /\ (nodes.num = 5 /\ nodesPerRack.num = 4) => returned = 2

\* calculateTotalRacks has returned 2 for 5 nodes at 4 per rack
C20_Witness ==
    /\ last.op = "step1.calculateTotalRacks"
    /\ last.arg.nodes = Number(5)
    /\ last.arg.nodesPerRack = Number(4)
    /\ last.arg.returned = 2

\* the base consumption and the efficiency multiplier are both configured
\* for the stored step 1 and the selected power configuration
C21_Configured ==
    LET table == forms.step2.config.powerCalculation
        deploymentType == config.step1.deploymentType.id
        nodeCount == NatToString(config.step1.selectedNodes)
    IN /\ deploymentType \in DOMAIN table.baseConsumption
       /\ nodeCount \in DOMAIN table.baseConsumption[deploymentType]
       /\ forms.step2.selectedPowerConfiguration.id \in DOMAIN table.efficiencyMultipliers

\* C21: when the base consumption and the efficiency multiplier are taken
\* from the configured tables, the estimated consumption is base x efficiency
\* multiplier x regional multiplier rounded to one decimal, also for an
\* efficiency multiplier of 0. With the product p in units of 1/10000 and the
\* estimate e in tenths, e is the rounding of p / 1000: 1000e - 500 <= p < 1000e + 500.
C21_RoundedProduct ==
    (/\ last.op \in {"step2.onPowerConfigurationSelect", "step2.onRegionSelect"}
     /\ forms.step2.selectedPowerConfiguration # JSNull
     /\ forms.step2.selectedRegion # JSNull
     /\ config.step1 # Undefined
     /\ C21_Configured) =>
        LET table == forms.step2.config.powerCalculation
            product ==
                table.baseConsumption[config.step1.deploymentType.id]
                                     [NatToString(config.step1.selectedNodes)]
                * table.efficiencyMultipliers[forms.step2.selectedPowerConfiguration.id]
                * powerMultiplier(forms.step2.selectedRegion)
            estimate == forms.step2.estimatedPowerConsumption
        IN /\ 1000 * estimate - 500 <= product
           /\ product < 1000 * estimate + 500

\* what calculatePowerConsumption yields for the stored step 1 and the stored
\* power configuration and region
C30_Recalculated ==
    calculatePowerConsumption(
        [InitialStep2Form(forms.step2.config.powerCalculation) EXCEPT
             !.selectedPowerConfiguration = config.step2.powerConfiguration,
             !.selectedRegion = config.step2.region],
        config.step1)

\* C30: at the review step with the three payloads present, the stored
\* estimatedPowerConsumption and calculatedEfficiency are the values that
\* calculatePowerConsumption yields for the stored step 1 and the stored
\* power configuration and region.
C30_PowerNotStale ==
    (config.currentStep = 4 /\ config.step1 # Undefined /\ config.step2 # Undefined
                            /\ config.step3 # Undefined) =>
        /\ ~C30_Recalculated.threw
        /\ config.step2.estimatedPowerConsumption = C30_Recalculated.form.estimatedPowerConsumption
        /\ config.step2.calculatedEfficiency = C30_Recalculated.form.calculatedEfficiency

-----------------------------------------------------------------------------
(* Claims about the assembly of the final document, checked under AssemblySpec *)

\* what the claim expects of a text field: the option's name, '' when the
\* step, the option or its name is missing
C17_Name(step, key) ==
    IF step # Undefined /\ key \in DOMAIN step /\ "name" \in DOMAIN step[key]
    THEN step[key].name ELSE <<>>

\* what the claim expects of a numeric field: the stored number, 0 when the
\* step or the number is missing
C17_Number(step, key) ==
    IF step # Undefined /\ key \in DOMAIN step THEN step[key] ELSE 0

\* C17: getFinalConfiguration does not throw on a partial state; each text
\* field of the document is the name of the selected option, or '' when the
\* step, the option or its name is missing, and each numeric field is the
\* stored number, or 0 when the step or the number is missing.
C17_AssemblyTotal ==
    last.op = "getFinalConfiguration" =>
        LET doc == last.arg.configuration
        IN /\ "threw" \notin DOMAIN doc
           /\ doc.system = [type |-> C17_Name(config.step1, "systemType"),
                            deployment |-> C17_Name(config.step1, "deploymentType"),
                            nodes |-> C17_Number(config.step1, "selectedNodes"),
                            nodesPerRack |-> C17_Number(config.step1, "nodesPerRack"),
                            totalRacks |-> C17_Number(config.step1, "totalRacks")]
           /\ doc.power = [configuration |-> C17_Name(config.step2, "powerConfiguration"),
                           region |-> C17_Name(config.step2, "region"),
                           efficiency |-> C17_Number(config.step2, "calculatedEfficiency"),
                           estimatedConsumption |->
                               C17_Number(config.step2, "estimatedPowerConsumption")]
           /\ doc.storage = [protocol |-> C17_Name(config.step3, "storageProtocol"),
                             vendor |-> C17_Name(config.step3, "storageVendor"),
                             support |-> C17_Name(config.step3, "supportOption")]

\* the document of a state without step 1, with a step 2 whose power
\* configuration has no name and that has no region and no efficiency, and
\* with a complete step 3
C17_Witness ==
    /\ last.op = "getFinalConfiguration"
    /\ config.step1 = Undefined
    /\ config.step2 = [powerConfiguration |-> [id |-> FullDC.id],
                       estimatedPowerConsumption |-> 9900]
    /\ config.step3 = Step3Data(HighSpeed, WekaIO, Support5y)
    /\ last.arg.configuration.system.nodes = 0
    /\ last.arg.configuration.system.type = <<>>
    /\ last.arg.configuration.power.configuration = <<>>
    /\ last.arg.configuration.power.efficiency = 0
    /\ last.arg.configuration.power.estimatedConsumption = 9900
    /\ last.arg.configuration.storage.vendor = WekaIO.name

\* a call of getFinalConfiguration
C18_Call == last'.op = "getFinalConfiguration"

-----------------------------------------------------------------------------
(* Claims about the hash loop, checked under HashSpec *)

\* h * 31 + char modulo 2^32, on limbs
C22_ReferenceStep(h, char) ==
    LET lo == h[2] * 31 + char
        hi == h[1] * 31 + (lo \div Limb)
    IN <<hi % Limb, lo % Limb>>

\* h = 0; h = h * 31 + code(c) modulo 2^32 for each character c of the text
RECURSIVE C22_Reference(_)
C22_Reference(text) ==
    IF text = <<>> THEN <<0, 0>>
    ELSE C22_ReferenceStep(C22_Reference(SubSeq(text, 1, Len(text) - 1)), text[Len(text)])

\* C22: for every text, the loop with ((hash << 5) - hash) + char and the
\* truncation to 32 bits yields the 32-bit pattern of the reference
\* h = h * 31 + code(c) wrapped to 32 bits, and so the same signed decimal.
C22_HashIsReference ==
    last.op = "hash" =>
        /\ last.arg.hash = C22_Reference(last.arg.configString)
        /\ Int32ToString(last.arg.hash) = Int32ToString(C22_Reference(last.arg.configString))

\* the hash of a text of eight code units, which has left the 32 bits and
\* reads as a negative number
C22_Witness ==
    /\ last.op = "hash"
    /\ last.arg.configString = <<65535, 65535, 34, 123, 65535, 34, 34, 34>>
    /\ last.arg.hash[1] >= Limb \div 2
    /\ Int32ToString(last.arg.hash)[1] = 45

====
